---- MODULE Spec2Model ----
(***************************************************************************)
(* Schema unification and validation of SharePointInsight                  *)
(* (class SchemaService: buildUnionSchema, validateColumnTypes).           *)
(*                                                                         *)
(* Strings that the code orders (column names, display names) are          *)
(* sequences of UTF-16 code units; strings that the code only compares for *)
(* equality (column types) are TLA+ strings; source identifiers, which the *)
(* code only compares for equality, are naturals.                          *)
(***************************************************************************)
EXTENDS Integers, Sequences, FiniteSets, TLC

VARIABLES input, schema, validation, item, meta, normalized, pc,
          route, selectedSources, sourceIndex, skip, hasMore, allRowsLength,
          fetched, failed, response,
          exportData, workbook, csv,
          store, requests

\* The state of the schema service, and the state of a route that fetches
\* from its sources one after the other.
serviceVars == <<input, schema, validation, item, meta, normalized>>

fetchVars ==
  <<route, selectedSources, sourceIndex, skip, hasMore, allRowsLength,
    fetched, failed, response>>

\* What the exporter is given and what it makes of it.
exportVars == <<exportData, workbook, csv>>

\* The table of sources and the schema requests that are running.
storeVars == <<store, requests>>

vars == <<serviceVars, fetchVars, exportVars, storeVars, pc>>

(***************************************************************************)
(* Bounds of the model.                                                    *)
(***************************************************************************)
MaxLen == 3

MaxSources == 3

WideSources == 201

HalfSources == 40

WideGap == 17

(***************************************************************************)
(* Strings.                                                                *)
(***************************************************************************)
EmptyString == <<>>

Owner == <<79, 119, 110, 101, 114>>

Title == <<84, 105, 116, 108, 101>>

amount == <<97, 109, 111, 117, 110, 116>>

Min(a, b) == IF a < b THEN a ELSE b

\* The first index at which two strings differ, or 0 when one is a prefix
\* of the other.
FirstDiff(a, b) ==
  LET d == {i \in 1..Min(Len(a), Len(b)) : a[i] # b[i]}
  IN  IF d = {} THEN 0 ELSE CHOOSE i \in d : \A j \in d : i <= j

\* The relational operators of JavaScript on strings: code-unit order.
\* Negative, zero or positive as a is before, equal to or after b.
codeUnitCompare(a, b) ==
  LET i == FirstDiff(a, b)
  IN  IF i = 0 THEN Len(a) - Len(b) ELSE a[i] - b[i]

IsLower(c) == c >= 97 /\ c <= 122

\* Primary collation weight of a letter: its place in the alphabet,
\* whatever its case.
PrimaryWeight(c) == IF IsLower(c) THEN c - 32 ELSE c

\* Tertiary collation weight: a lower-case letter before its upper-case.
TertiaryWeight(c) == IF IsLower(c) THEN 0 ELSE 1

\* String.prototype.localeCompare on strings of ASCII letters (the default
\* collation): the letters decide, whatever their case; the case decides
\* among strings of the same letters.
localeCompare(a, b) ==
  LET pa == [i \in 1..Len(a) |-> PrimaryWeight(a[i])]
      pb == [i \in 1..Len(b) |-> PrimaryWeight(b[i])]
      ta == [i \in 1..Len(a) |-> TertiaryWeight(a[i])]
      tb == [i \in 1..Len(b) |-> TertiaryWeight(b[i])]
      p  == codeUnitCompare(pa, pb)
  IN  IF p # 0 THEN p ELSE codeUnitCompare(ta, tb)

(***************************************************************************)
(* Array helpers.                                                          *)
(***************************************************************************)
\* Array.prototype.includes
includes(s, x) == \E i \in 1..Len(s) : s[i] = x

\* The distinct elements of s[lo..hi] in the order of their first
\* appearance: those of the first half, then those of the second half that
\* the first half does not have.
RECURSIVE UniqueRange(_, _, _)
UniqueRange(s, lo, hi) ==
  IF lo > hi THEN <<>>
  ELSE IF lo = hi THEN <<s[lo]>>
  ELSE LET mid   == (lo + hi) \div 2
           left  == UniqueRange(s, lo, mid)
           right == UniqueRange(s, mid + 1, hi)
       IN  left \o SelectSeq(right, LAMBDA x : ~includes(left, x))

\* Array.from(new Set(s)): the distinct elements of s in the order of their
\* first appearance.
Unique(s) == UniqueRange(s, 1, Len(s))

\* The pairs <<n, d>>, d <= 256, whose percentage 100n/d lies exactly between
\* two integers and whose IEEE-754 double (n / d) * 100 lies below it: the
\* quotient n / d is rounded to 53 bits before it is multiplied
\* ((23 / 40) * 100 is 57.49999999999999).
DoubleBelowHalf ==
  { <<23, 40>>, <<46, 80>>, <<69, 120>>, <<92, 160>>, <<29, 200>>,
    <<57, 200>>, <<113, 200>>, <<115, 200>>, <<138, 240>> }

\* Math.round((n / d) * 100) for 0 <= n <= d, 0 < d <= 256, in doubles:
\* Math.round rounds halves up; the double differs from the exact percentage
\* by less than any distance to a half unless the percentage is a half.
roundedPercent(n, d) ==
  IF <<n, d>> \in DoubleBelowHalf
    THEN (200 * n + d) \div (2 * d) - 1
    ELSE (200 * n + d) \div (2 * d)

(***************************************************************************)
(* SchemaService.buildUnionSchema                                          *)
(***************************************************************************)
\* A grouping that never looks at the internal name.
GroupKey_DisplayNameOnly(col) == col.displayName

\* col.name || col.displayName
GroupKey(col) == IF col.name # EmptyString THEN col.name ELSE col.displayName

\* The Map columnGroups: its keys in insertion order, each with the columns
\* pushed under it, in input order.
columnGroups(sources) ==
  LET keys == Unique([i \in 1..Len(sources) |-> GroupKey(sources[i])])
  IN  [g \in 1..Len(keys) |->
         [key     |-> keys[g],
          columns |-> SelectSeq(sources, LAMBDA col : GroupKey(col) = keys[g])]]

uniqueSourceIds_Default(sources) ==
  IF sources = <<>> THEN <<0>>
  ELSE Unique([i \in 1..Len(sources) |-> sources[i].sourceId])

uniqueSourceIds(sources) == Unique([i \in 1..Len(sources) |-> sources[i].sourceId])

sourcesWithColumn(columns) == Unique([i \in 1..Len(columns) |-> columns[i].sourceId])

coverageOf(columns, totalSources) ==
  roundedPercent(Len(sourcesWithColumn(columns)), totalSources)

\* A conflict list that keeps one entry per source.
typeConflictsOf_OnePerSource(columns) ==
  LET primaryType == columns[1].type
      differing   == SelectSeq(columns, LAMBDA col : col.type # primaryType)
      kept        == {i \in 1..Len(differing) :
                        \A j \in 1..(i - 1) : differing[j].sourceId # differing[i].sourceId}
      nth(k)      == CHOOSE i \in kept : Cardinality({j \in kept : j <= i}) = k
  IN  [k \in 1..Cardinality(kept) |->
         [sourceId |-> differing[nth(k)].sourceId, type |-> differing[nth(k)].type]]

typeConflictsOf(columns) ==
  LET primaryType == columns[1].type
      differing   == SelectSeq(columns, LAMBDA col : col.type # primaryType)
  IN  [i \in 1..Len(differing) |->
         [sourceId |-> differing[i].sourceId, type |-> differing[i].type]]

\* A required flag that wants every member required.
requiredOf_Every(columns) == \A i \in 1..Len(columns) : columns[i].required

requiredOf(columns) == \E i \in 1..Len(columns) : columns[i].required

\* A hidden flag that is taken from the first member.
hiddenOf_First(columns) == columns[1].hidden

hiddenOf(columns) == \A i \in 1..Len(columns) : columns[i].hidden

\* A union column that inherits from the last member of its group.
unionColumn_LastMember(columns, totalSources) ==
  LET lastColumn == columns[Len(columns)]
  IN  [id            |-> lastColumn.id,
       name          |-> lastColumn.name,
       displayName   |-> lastColumn.displayName,
       type          |-> lastColumn.type,
       required      |-> requiredOf(columns),
       hidden        |-> hiddenOf(columns),
       sources       |-> sourcesWithColumn(columns),
       coverage      |-> coverageOf(columns, totalSources),
       typeConflicts |-> typeConflictsOf(columns)]

unionColumn(columns, totalSources) ==
  LET firstColumn == columns[1]
  IN  [id            |-> firstColumn.id,
       name          |-> firstColumn.name,
       displayName   |-> firstColumn.displayName,
       type          |-> firstColumn.type,
       required      |-> requiredOf(columns),
       hidden        |-> hiddenOf(columns),
       sources       |-> sourcesWithColumn(columns),
       coverage      |-> coverageOf(columns, totalSources),
       typeConflicts |-> typeConflictsOf(columns)]

\* A matrix row over the sources of the group alone.
matrixRow_OwnSources(columns, sourceIds) ==
  [j \in 1..Len(sourcesWithColumn(columns)) |-> TRUE]

matrixRow(columns, sourceIds) ==
  [j \in 1..Len(sourceIds) |-> includes(sourcesWithColumn(columns), sourceIds[j])]

\* A comparator that puts the lowest coverage first.
compareColumns_Ascending(a, b) ==
  IF b.coverage # a.coverage
    THEN a.coverage - b.coverage
    ELSE localeCompare(a.displayName, b.displayName)

\* The comparator handed to unionColumns.sort.
compareColumns(a, b) ==
  IF b.coverage # a.coverage
    THEN b.coverage - a.coverage
    ELSE localeCompare(a.displayName, b.displayName)

\* Array.prototype.sort is stable: x goes behind every element that does not
\* compare after it.
InsertSorted(sorted, x) ==
  LET after == {i \in 1..Len(sorted) : compareColumns(sorted[i], x) > 0}
      p     == IF after = {} THEN Len(sorted) + 1
               ELSE CHOOSE i \in after : \A j \in after : i <= j
  IN  SubSeq(sorted, 1, p - 1) \o <<x>> \o SubSeq(sorted, p, Len(sorted))

RECURSIVE SortFrom(_, _, _)
SortFrom(s, i, acc) ==
  IF i > Len(s) THEN acc ELSE SortFrom(s, i + 1, InsertSorted(acc, s[i]))

sortColumns(unionColumns) == SortFrom(unionColumns, 1, <<>>)

buildUnionSchema(sources) ==
  LET groups       == columnGroups(sources)
      sourceIds    == uniqueSourceIds(sources)
      totalSources == Len(sourceIds)
      pushed       == [g \in 1..Len(groups) |-> unionColumn(groups[g].columns, totalSources)]
      rows         == [g \in 1..Len(groups) |-> matrixRow(groups[g].columns, sourceIds)]
      unionColumns == sortColumns(pushed)
  IN  [columns        |-> unionColumns,
       totalSources   |-> totalSources,
       totalColumns   |-> Len(unionColumns),
       coverageMatrix |->
         [columns |-> [i \in 1..Len(unionColumns) |-> unionColumns[i].displayName],
          sources |-> sourceIds,
          matrix  |-> rows]]

(***************************************************************************)
(* SchemaService.validateColumnTypes                                       *)
(*                                                                         *)
(* A message is modelled by the parts its template string is built from.   *)
(***************************************************************************)
typeConflictWarning(column) ==
  [kind |-> "typeConflicts", column |-> column.displayName,
   conflicts |-> column.typeConflicts, coverage |-> column.coverage]

lowCoverageWarning(column) ==
  [kind |-> "lowCoverage", column |-> column.displayName,
   conflicts |-> <<>>, coverage |-> column.coverage]

requiredError(column) ==
  [kind |-> "requiredMissing", column |-> column.displayName,
   conflicts |-> <<>>, coverage |-> column.coverage]

LowCoverageThreshold == 50

FullCoverage == 100

\* A low-coverage warning that includes the threshold itself.
columnWarnings_Inclusive(column) ==
  (IF Len(column.typeConflicts) > 0 THEN <<typeConflictWarning(column)>> ELSE <<>>)
  \o (IF column.coverage <= LowCoverageThreshold THEN <<lowCoverageWarning(column)>> ELSE <<>>)

\* The warnings pushed for one column, in the order of the pushes.
columnWarnings(column) ==
  (IF Len(column.typeConflicts) > 0 THEN <<typeConflictWarning(column)>> ELSE <<>>)
  \o (IF column.coverage < LowCoverageThreshold THEN <<lowCoverageWarning(column)>> ELSE <<>>)

columnErrors(column) ==
  IF column.required /\ column.coverage < FullCoverage
    THEN <<requiredError(column)>> ELSE <<>>

RECURSIVE ValidateFrom(_, _, _)
ValidateFrom(columns, i, acc) ==
  IF i > Len(columns) THEN acc
  ELSE ValidateFrom(columns, i + 1,
         [warnings |-> acc.warnings \o columnWarnings(columns[i]),
          errors   |-> acc.errors \o columnErrors(columns[i])])

validateColumnTypes(unionSchema) ==
  ValidateFrom(unionSchema.columns, 1, [warnings |-> <<>>, errors |-> <<>>])

(***************************************************************************)
(* JavaScript values.  A value is a record tagged with its kind; a finite  *)
(* number is held in tenths (425 is 42.5), a string as its code units, an  *)
(* object as the mapping of its own properties.                            *)
(***************************************************************************)
Undefined == [kind |-> "undefined"]

Null == [kind |-> "null"]

NaN == [kind |-> "NaN"]

Num(t) == [kind |-> "number", tenths |-> t]

Str(s) == [kind |-> "string", s |-> s]

Bool(b) == [kind |-> "boolean", b |-> b]

Arr(items) == [kind |-> "array", items |-> items]

Obj(props) == [kind |-> "object", props |-> props]

\* "_source_id"
SourceIdKey == <<95, 115, 111, 117, 114, 99, 101, 95, 105, 100>>

\* "_site_url"
SiteUrlKey == <<95, 115, 105, 116, 101, 95, 117, 114, 108>>

\* "_site_title"
SiteTitleKey == <<95, 115, 105, 116, 101, 95, 116, 105, 116, 108, 101>>

\* "_list_title"
ListTitleKey == <<95, 108, 105, 115, 116, 95, 116, 105, 116, 108, 101>>

\* "_list_id"
ListIdKey == <<95, 108, 105, 115, 116, 95, 105, 100>>

\* "_item_url"
ItemUrlKey == <<95, 105, 116, 101, 109, 95, 117, 114, 108>>

\* "webUrl"
WebUrlKey == <<119, 101, 98, 85, 114, 108>>

\* "[object Object]"
ObjectObject == <<91, 111, 98, 106, 101, 99, 116, 32, 79, 98, 106, 101, 99, 116, 93>>

\* "true"
TrueString == <<116, 114, 117, 101>>

\* "false"
FalseString == <<102, 97, 108, 115, 101>>

\* "yes"
YesString == <<121, 101, 115>>

\* "1"
OneString == <<49>>

\* "1970-01-01T00:00:00."
EpochPrefix == <<49, 57, 55, 48, 45, 48, 49, 45, 48, 49, 84, 48, 48, 58, 48, 48, 58, 48, 48, 46>>

\* "T00:00:00.000Z"
MidnightSuffix == <<84, 48, 48, 58, 48, 48, 58, 48, 48, 46, 48, 48, 48, 90>>

\* "2001-01-01T00:00:00.000Z"
LegacyDate == <<50, 48, 48, 49, 45, 48, 49, 45, 48, 49, 84, 48, 48, 58, 48, 48, 58, 48, 48, 46, 48, 48, 48, 90>>

\* record[key], undefined when the record has no such key.
Get(record, key) == IF key \in DOMAIN record THEN record[key] ELSE Undefined

\* value.prop of an object.
Prop(value, prop) == Get(value.props, prop)

\* ToBoolean: what the operator || and Boolean() see.
Truthy(v) ==
  CASE v.kind \in {"undefined", "null", "NaN"} -> FALSE
    [] v.kind = "number"  -> v.tenths # 0
    [] v.kind = "string"  -> Len(v.s) > 0
    [] v.kind = "boolean" -> v.b
    [] OTHER              -> TRUE

\* a || b
Or(a, b) == IF Truthy(a) THEN a ELSE b

IsDigit(c) == c >= 48 /\ c <= 57

RECURSIVE Digits(_)
\* The decimal digits of a natural number.
Digits(n) == IF n < 10 THEN <<48 + n>> ELSE Append(Digits(n \div 10), 48 + (n % 10))

RECURSIVE DigitsValue(_)
\* The natural number that a string of decimal digits denotes.
DigitsValue(d) ==
  IF Len(d) = 0 THEN 0
  ELSE 10 * DigitsValue(SubSeq(d, 1, Len(d) - 1)) + (d[Len(d)] - 48)

\* Number.prototype.toString of a non-negative number of tenths.
NumberToString(t) ==
  IF t % 10 = 0 THEN Digits(t \div 10) ELSE Digits(t \div 10) \o <<46>> \o Digits(t % 10)

\* An object converts to a primitive through Object.prototype.toString
\* unless an own property toString hides it with something that is no
\* function (as in the JSON value {"toString": 1}): then the conversion
\* throws a TypeError.
ConversionThrows(v) == v.kind = "object" /\ "toString" \in DOMAIN v.props

RECURSIVE Join(_, _)
\* String(v) of a value whose conversion does not throw.
StringOf(v) ==
  CASE v.kind = "undefined" -> <<117, 110, 100, 101, 102, 105, 110, 101, 100>>
    [] v.kind = "null"      -> <<110, 117, 108, 108>>
    [] v.kind = "NaN"       -> <<78, 97, 78>>
    [] v.kind = "number"    -> NumberToString(v.tenths)
    [] v.kind = "string"    -> v.s
    [] v.kind = "boolean"   -> IF v.b THEN TrueString ELSE FalseString
    [] v.kind = "array"     -> Join(v.items, 1)
    [] OTHER                -> ObjectObject

\* Array.prototype.join(","), from element i on: null and undefined
\* elements give the empty string.
Join(items, i) ==
  IF i > Len(items) THEN <<>>
  ELSE (IF items[i].kind \in {"undefined", "null"} THEN <<>> ELSE StringOf(items[i]))
       \o (IF i < Len(items) THEN <<44>> \o Join(items, i + 1) ELSE <<>>)

\* String(v) throws when v, or an element of the array v, does.
StringThrows(v) ==
  \/ ConversionThrows(v)
  \/ v.kind = "array" /\ \E i \in 1..Len(v.items) : ConversionThrows(v.items[i])

\* The numeric value of a string (StringToNumber): the empty string is 0, a
\* decimal literal is its value, anything else is NaN.  The strings of the
\* model have no white space, sign or exponent and at most one digit behind
\* the point.
StringToNumber(s) ==
  LET dots == {i \in 1..Len(s) : s[i] = 46}
      dot  == IF dots = {} THEN Len(s) + 1 ELSE CHOOSE i \in dots : TRUE
      int  == SubSeq(s, 1, dot - 1)
      frac == SubSeq(s, dot + 1, Len(s))
  IN  IF Len(s) = 0 THEN Num(0)
      ELSE IF /\ Cardinality(dots) <= 1
              /\ \A i \in 1..Len(s) : IsDigit(s[i]) \/ s[i] = 46
              /\ Len(int) + Len(frac) > 0
              /\ Len(frac) <= 1
        THEN Num(10 * DigitsValue(int) + DigitsValue(frac))
        ELSE NaN

\* Number(v) of a value whose conversion does not throw.
NumberOf(v) ==
  CASE v.kind = "undefined" -> NaN
    [] v.kind = "null"      -> Num(0)
    [] v.kind \in {"number", "NaN"} -> v
    [] v.kind = "string"    -> StringToNumber(v.s)
    [] v.kind = "boolean"   -> IF v.b THEN Num(10) ELSE Num(0)
    [] OTHER                -> StringToNumber(StringOf(v))

\* String.prototype.toLowerCase on ASCII.
toLowerCase(s) == [i \in 1..Len(s) |-> IF s[i] >= 65 /\ s[i] <= 90 THEN s[i] + 32 ELSE s[i]]

\* YYYY-MM-DD, the date-only form of the ECMAScript date-time format.
IsIsoDate(s) ==
  /\ Len(s) = 10
  /\ s[5] = 45 /\ s[8] = 45
  /\ \A i \in {1, 2, 3, 4, 6, 7, 9, 10} : IsDigit(s[i])
  /\ DigitsValue(SubSeq(s, 6, 7)) \in 1..12
  /\ DigitsValue(SubSeq(s, 9, 10)) \in 1..28   \* a day that every month has

\* new Date(v).toISOString() of a value whose conversion does not throw, or
\* NaN when the date is invalid.  A number (or boolean) is a time value in
\* milliseconds, below one second in the model; a string in the date-time
\* format is that date; a string without a digit is no date; what any other
\* string is, is left to the engine: a date (lenient) or none.
DateToISOString(v, lenient) ==
  LET prim == IF v.kind \in {"array", "object"} THEN Str(StringOf(v)) ELSE v
      ms   == NumberOf(prim).tenths \div 10
      pad  == IF ms < 10 THEN <<48, 48>> ELSE IF ms < 100 THEN <<48>> ELSE <<>>
  IN  IF prim.kind = "string"
        THEN IF IsIsoDate(prim.s) THEN Str(prim.s \o MidnightSuffix)
             ELSE IF lenient /\ \E i \in 1..Len(prim.s) : IsDigit(prim.s[i])
               THEN Str(LegacyDate)
               ELSE NaN
      ELSE IF NumberOf(prim).kind = "NaN" THEN NaN
      ELSE Str(EpochPrefix \o pad \o Digits(ms) \o <<90>>)

(***************************************************************************)
(* SchemaService.coerceValue and SchemaService.normalizeDataRow            *)
(***************************************************************************)
\* value.prop, undefined on an array (which has no such property).
PropOf(value, prop) == IF value.kind = "object" THEN Prop(value, prop) ELSE Undefined

\* typeof value === "object" && value !== null
IsObjectType(value) == value.kind \in {"object", "array"}

\* a || b || String(value)
NameOf(value, a, b) ==
  Or(Or(PropOf(value, a), PropOf(value, b)), Str(StringOf(value)))

\* a || b || String(value) throws when String(value) is reached and throws.
NameThrows(value, a, b) ==
  /\ ~Truthy(PropOf(value, a))
  /\ ~Truthy(PropOf(value, b))
  /\ StringThrows(value)

\* a || b || null
IdOf(value, a, b) == Or(Or(PropOf(value, a), PropOf(value, b)), Null)

\* Whether the body of the try block throws.
coercionThrows(value, targetType) ==
  CASE targetType \in {"text", "number", "currency", "dateTime"} -> StringThrows(value)
    [] targetType = "boolean" -> FALSE
    [] targetType = "choice" ->
         IF value.kind = "array"
           THEN \E i \in 1..Len(value.items) : StringThrows(value.items[i])
           ELSE StringThrows(value)
    [] targetType = "lookup" -> IsObjectType(value) /\ NameThrows(value, "title", "Title")
    [] targetType = "person" -> IsObjectType(value) /\ NameThrows(value, "displayName", "Title")
    [] targetType = "taxonomy" -> IsObjectType(value) /\ NameThrows(value, "label", "Label")
    [] targetType = "url" -> IsObjectType(value) /\ NameThrows(value, "url", "Url")
    [] OTHER -> FALSE

\* What the body of the try block returns when it does not throw.
coerced(value, targetType, lenient) ==
  CASE targetType = "text" -> Str(StringOf(value))
    [] targetType \in {"number", "currency"} ->
         IF NumberOf(value).kind = "NaN" THEN Null ELSE NumberOf(value)
    [] targetType = "dateTime" ->
         IF DateToISOString(value, lenient).kind = "NaN"
           THEN Null ELSE DateToISOString(value, lenient)
    [] targetType = "boolean" ->
         IF value.kind = "boolean" THEN value
         ELSE IF value.kind = "string"
           THEN Bool(toLowerCase(value.s) \in {TrueString, YesString, OneString})
           ELSE Bool(Truthy(value))
    [] targetType = "choice" ->
         IF value.kind = "array"
           THEN Arr([i \in 1..Len(value.items) |-> Str(StringOf(value.items[i]))])
           ELSE Arr(<<Str(StringOf(value))>>)
    [] targetType = "lookup" ->
         IF IsObjectType(value)
           THEN Obj([id |-> IdOf(value, "id", "Id"), title |-> NameOf(value, "title", "Title")])
           ELSE Obj([id |-> Null, title |-> Str(StringOf(value))])
    [] targetType = "person" ->
         IF IsObjectType(value)
           THEN Obj([id |-> IdOf(value, "id", "Id"),
                     displayName |-> NameOf(value, "displayName", "Title"),
                     email |-> IdOf(value, "email", "EMail")])
           ELSE Obj([id |-> Null, displayName |-> Str(StringOf(value)), email |-> Null])
    [] targetType = "taxonomy" ->
         IF IsObjectType(value)
           THEN Obj([label |-> NameOf(value, "label", "Label"),
                     termGuid |-> IdOf(value, "termGuid", "TermGuid")])
           ELSE Obj([label |-> Str(StringOf(value)), termGuid |-> Null])
    [] targetType = "url" ->
         IF IsObjectType(value)
           THEN Obj([url |-> NameOf(value, "url", "Url"),
                     description |-> IdOf(value, "description", "Description")])
           ELSE Obj([url |-> Str(StringOf(value)), description |-> Null])
    [] OTHER -> value

\* The catch block returns the value as it came.
coerceValue(value, targetType, lenient) ==
  IF value.kind \in {"null", "undefined"} THEN Null
  ELSE IF coercionThrows(value, targetType) THEN value
  ELSE coerced(value, targetType, lenient)

\* normalizedRow[key] = value
Put(record, key, value) ==
  [k \in DOMAIN record \cup {key} |-> IF k = key THEN value ELSE record[k]]

\* row[column.name] || row[column.displayName]
rawValue(row, column) == Or(Get(row, column.name), Get(row, column.displayName))

\* The source metadata columns and the item URL.
metadataColumns(row, sourceMetadata) ==
  [k \in {SourceIdKey, SiteUrlKey, SiteTitleKey, ListTitleKey, ListIdKey, ItemUrlKey} |->
     CASE k = SourceIdKey  -> sourceMetadata.sourceId
       [] k = SiteUrlKey   -> sourceMetadata.siteUrl
       [] k = SiteTitleKey -> sourceMetadata.siteTitle
       [] k = ListTitleKey -> sourceMetadata.listTitle
       [] k = ListIdKey    -> sourceMetadata.listId
       [] OTHER            -> Or(Get(row, WebUrlKey), Null)]

RECURSIVE NormalizeFrom(_, _, _, _, _)
\* unionSchema.columns.forEach, from column i on.
NormalizeFrom(row, columns, i, lenient, normalizedRow) ==
  IF i > Len(columns) THEN normalizedRow
  ELSE NormalizeFrom(row, columns, i + 1, lenient,
         Put(normalizedRow, columns[i].displayName,
             coerceValue(rawValue(row, columns[i]), columns[i].type, lenient)))

normalizeDataRow(row, unionSchema, sourceMetadata, lenient) ==
  NormalizeFrom(row, unionSchema.columns, 1, lenient, metadataColumns(row, sourceMetadata))

(***************************************************************************)
(* The inputs of the model.                                                *)
(***************************************************************************)
\* Column definitions as getListColumns returns them: two per logical
\* column, differing in type, required and hidden flag, display name and in
\* whether the internal name is there.
ColumnDefs ==
  { [id |-> 1, name |-> Owner, displayName |-> Owner, type |-> "text",
     required |-> TRUE, hidden |-> FALSE],
    [id |-> 2, name |-> Title, displayName |-> Title, type |-> "text",
     required |-> FALSE, hidden |-> FALSE],
    [id |-> 3, name |-> amount, displayName |-> amount, type |-> "currency",
     required |-> FALSE, hidden |-> FALSE],
    [id |-> 4, name |-> amount, displayName |-> amount, type |-> "text",
     required |-> FALSE, hidden |-> TRUE],
    [id |-> 5, name |-> EmptyString, displayName |-> Owner, type |-> "number",
     required |-> FALSE, hidden |-> TRUE],
    [id |-> 6, name |-> Title, displayName |-> amount, type |-> "number",
     required |-> TRUE, hidden |-> TRUE] }

SourceIds == 1..MaxSources

\* { ...col, sourceId }
SourceColumn(col, sourceId) ==
  [id |-> col.id, name |-> col.name, displayName |-> col.displayName,
   type |-> col.type, required |-> col.required, hidden |-> col.hidden,
   sourceId |-> sourceId]

SourceColumns == {SourceColumn(col, s) : col \in ColumnDefs, s \in SourceIds}

Inputs == UNION {[1..n -> SourceColumns] : n \in 0..MaxLen}

\* Selections of many sources: every one of n sources has the column Title,
\* and the first k of them have the column Owner as well.
WideInput(n, k) ==
  [i \in 1..(n + k) |->
     IF i <= n
       THEN [id |-> 2, name |-> Title, displayName |-> Title, type |-> "text",
             required |-> FALSE, hidden |-> FALSE, sourceId |-> i]
       ELSE [id |-> 1, name |-> Owner, displayName |-> Owner, type |-> "text",
             required |-> TRUE, hidden |-> FALSE, sourceId |-> i - n]]

WideCounts == {HalfSources, WideSources - 1, WideSources}

WideInputs == {WideInput(n, n - g) : n \in WideCounts, g \in 0..WideGap}

\* The value of a local variable that is not assigned yet.
NoSchema ==
  [columns |-> <<>>, totalSources |-> 0, totalColumns |-> 0,
   coverageMatrix |-> [columns |-> <<>>, sources |-> <<>>, matrix |-> <<>>]]

NoValidation == [warnings |-> <<>>, errors |-> <<>>]

\* The types that getColumnType gives a column.
ColumnTypes ==
  {"text", "number", "currency", "dateTime", "boolean", "choice", "lookup",
   "person", "calculated", "taxonomy", "url", "unknown"}

\* The internal name and the display name of a column: the same, different,
\* no internal name, and the display name of a metadata column.
NamePairs ==
  {<<Title, Title>>, <<Title, amount>>, <<EmptyString, amount>>,
   <<amount, amount>>, <<Title, SourceIdKey>>}

RowColumn(names, type) ==
  [id |-> 7, name |-> names[1], displayName |-> names[2], type |-> type,
   required |-> FALSE, hidden |-> FALSE, sourceId |-> 1]

\* The columns of the schemas that rows are normalized to: one column of
\* any type, or two columns of text or number.
RowInputs ==
  {<<RowColumn(n, t)>> : n \in NamePairs, t \in ColumnTypes}
  \cup {<<RowColumn(n1, t1), RowColumn(n2, t2)>> :
          n1 \in NamePairs, n2 \in NamePairs,
          t1 \in {"text", "number"}, t2 \in {"text", "number"}}

\* "abc"
Abc == <<97, 98, 99>>

\* Field values of a raw record.
RawValues ==
  { Null, Num(0), Num(425), Bool(TRUE), Bool(FALSE),
    Str(EmptyString), Str(Abc), Str(<<52, 50, 46, 53>>), Str(<<89, 101, 115>>), Str(<<110, 111>>), Str(OneString),
    Str(<<50, 48, 50, 52, 45, 48, 49, 45, 49, 53>>),
    Arr(<<Str(Abc), Num(0)>>),
    Obj([Title |-> Str(Abc)]),
    Obj([toString |-> Num(10)]) }

\* Raw records: the fields Title and amount, each with a value or not
\* there, and the item with a webUrl or without.
RawRows ==
  UNION { [keys -> RawValues] \cup
          {Put(r, WebUrlKey, Str(<<105, 116, 101, 109>>)) : r \in [keys -> RawValues]} :
          keys \in SUBSET {Title, amount} }

\* The source of the rows, as the routes describe it.
Provenance ==
  [sourceId |-> Str(<<115, 114, 99>>), siteUrl |-> Str(<<117, 114, 108>>), siteTitle |-> Str(<<115, 105, 116, 101>>),
   listTitle |-> Str(<<108, 105, 115, 116>>), listId |-> Str(<<108, 105, 100>>)]

NoRow == <<>>

(***************************************************************************)
(* The state machine: one call of buildUnionSchema on an input, followed   *)
(* by one call of validateColumnTypes on its result or by one call of      *)
(* normalizeDataRow of a raw record to it.                                 *)
(***************************************************************************)
\* No route is fetching.
NoFetch ==
  /\ route = "none"
  /\ selectedSources = <<>>
  /\ sourceIndex = 1
  /\ skip = 0
  /\ hasMore = TRUE
  /\ allRowsLength = 0
  /\ fetched = {}
  /\ failed = {}
  /\ response = "none"

\* The value of an output that is not made yet.
NoOutput == [status |-> "none"]

\* No export is under way.
NoExport ==
  /\ exportData = NoOutput
  /\ workbook = NoOutput
  /\ csv = NoOutput

\* No schema request is running and the table is empty.
NoStore ==
  /\ store = <<>>
  /\ requests = <<>>

TypeOK ==
  /\ pc \in {"start", "built", "validated", "normalized", "loop", "responded",
            "collect", "prepared", "exported", "requests"}
  /\ Len(input) <= MaxLen \/ Len(input) <= 2 * WideSources
  /\ schema.totalSources <= 256

Init ==
  /\ input \in Inputs
  /\ schema = NoSchema
  /\ validation = NoValidation
  /\ item = NoRow
  /\ meta = Provenance
  /\ normalized = NoRow
  /\ NoFetch
  /\ NoExport
  /\ NoStore
  /\ pc = "start"

BuildUnionSchema ==
  /\ pc = "start"
  /\ schema' = buildUnionSchema(input)
  /\ pc' = "built"
  /\ UNCHANGED <<input, validation, item, meta, normalized>>
  /\ UNCHANGED <<fetchVars, exportVars, storeVars>>

\* A validation that drops the columns it reports.
ValidateColumnTypes_Dropping ==
  /\ pc \in {"built", "normalized"}
  /\ validation' = validateColumnTypes(schema)
  /\ schema' = [schema EXCEPT !.columns =
                  SelectSeq(schema.columns, LAMBDA c : columnErrors(c) = <<>>)]
  /\ pc' = "validated"
  /\ UNCHANGED <<input, item, meta, normalized>>
  /\ UNCHANGED <<fetchVars, exportVars, storeVars>>

\* The calls on a schema come in any order: a validation after the schema is
\* built or a row is normalized, a normalization after the schema is built
\* or validated.
ValidateColumnTypes ==
  /\ pc \in {"built", "normalized"}
  /\ validation' = validateColumnTypes(schema)
  /\ pc' = "validated"
  /\ UNCHANGED <<input, schema, item, meta, normalized>>
  /\ UNCHANGED <<fetchVars, exportVars, storeVars>>

\* What new Date makes of a string that is not in the date-time format is
\* the engine's choice.
NormalizeDataRow ==
  /\ pc \in {"built", "validated"}
  /\ \E lenient \in BOOLEAN :
       normalized' = normalizeDataRow(item, schema, meta, lenient)
  /\ pc' = "normalized"
  /\ UNCHANGED <<input, schema, validation, item, meta>>
  /\ UNCHANGED <<fetchVars, exportVars, storeVars>>

Next == BuildUnionSchema \/ ValidateColumnTypes \/ NormalizeDataRow

Spec == Init /\ [][Next]_vars

InitWide ==
  /\ input \in WideInputs
  /\ schema = NoSchema
  /\ validation = NoValidation
  /\ item = NoRow
  /\ meta = Provenance
  /\ normalized = NoRow
  /\ NoFetch
  /\ NoExport
  /\ NoStore
  /\ pc = "start"

SpecWide == InitWide /\ [][Next]_vars

InitRow ==
  /\ input \in RowInputs
  /\ schema = NoSchema
  /\ validation = NoValidation
  /\ item \in RawRows
  /\ meta = Provenance
  /\ normalized = NoRow
  /\ NoFetch
  /\ NoExport
  /\ NoStore
  /\ pc = "start"

SpecRow == InitRow /\ [][Next]_vars

\* "fields" and "id"
FieldsKey == <<102, 105, 101, 108, 100, 115>>
IdKey == <<105, 100>>

\* The fields of a list item: Title and amount, each with a value or not
\* there.
ItemFields == UNION {[keys -> RawValues] : keys \in SUBSET {Title, amount}}

\* A list item as getListItems returns it: the id, the webUrl when there is
\* one, and the field values under fields.
ListItem(fields, hasWebUrl) ==
  LET listItem == (IdKey :> Str(OneString)) @@ (FieldsKey :> Obj(fields))
  IN  IF hasWebUrl THEN Put(listItem, WebUrlKey, Str(<<105, 116, 101, 109>>)) ELSE listItem

ListItems == {ListItem(fields, w) : fields \in ItemFields, w \in BOOLEAN}

\* The preview and export routes: the schema of the selected sources is
\* built and an item of getListItems is given to normalizeDataRow.
InitItems ==
  /\ input \in RowInputs
  /\ schema = NoSchema
  /\ validation = NoValidation
  /\ item \in ListItems
  /\ meta = Provenance
  /\ normalized = NoRow
  /\ NoFetch
  /\ NoExport
  /\ NoStore
  /\ pc = "start"

SpecItems == InitItems /\ [][Next]_vars

(***************************************************************************)
(* The routes' loops over their sources: POST /api/sources/schema fetches  *)
(* the columns of each source, POST /api/reports/preview one page of items *)
(* of each source, POST /api/reports/export page after page.  Rows and     *)
(* columns are counted, not held.                                          *)
(***************************************************************************)
\* The most sources a request selects.
MaxSelected == 2

\* The bound of skip in the model; the loop of the code stays far below.
MaxSkip == 200000

\* batchSize
BatchSize == 1000

\* The row count above which the export loop breaks.
ExportLimit == 100000

\* limit of the preview request, at its default.
PreviewLimit == 1000

\* Math.ceil(limit / selectedSources.length)
itemsPerSource(limit, sources) ==
  (limit + Len(sources) - 1) \div Len(sources)

\* The lengths of response.value that the model tells apart for a request
\* of top items: none, one, a full page.
PageLengths(top) == {0, 1, top}

\* hasMore of getListItems: the page is as long as asked for.
HasMoreAfter(length, top) == length = top

\* allRows.length > 100000
LimitReached_Never(length) == FALSE

LimitReached(length) == length > ExportLimit

Routes == {"schema", "preview", "export"}

InitFetch ==
  /\ input = <<>>
  /\ schema = NoSchema
  /\ validation = NoValidation
  /\ item = NoRow
  /\ meta = Provenance
  /\ normalized = NoRow
  /\ route \in Routes
  /\ selectedSources \in UNION {[1..n -> {"source"}] : n \in 1..MaxSelected}
  /\ sourceIndex = 1
  /\ skip = 0
  /\ hasMore = TRUE
  /\ allRowsLength = 0
  /\ fetched = {}
  /\ failed = {}
  /\ response = "none"
  /\ NoExport
  /\ NoStore
  /\ pc = "loop"

InLoop == pc = "loop" /\ sourceIndex <= Len(selectedSources)

\* The next iteration of the for loop: let hasMore = true; let skip = 0.
NextSource ==
  /\ sourceIndex' = sourceIndex + 1
  /\ skip' = 0
  /\ hasMore' = TRUE

\* The schema route: the columns of the source are fetched and pushed.
FetchColumns ==
  /\ InLoop
  /\ route = "schema"
  /\ \E length \in PageLengths(2) : allRowsLength' = allRowsLength + length
  /\ fetched' = fetched \cup {sourceIndex}
  /\ NextSource
  /\ UNCHANGED <<route, selectedSources, failed, response, pc>>
  /\ UNCHANGED <<serviceVars, exportVars, storeVars>>

\* The preview route: one page of the source is fetched and its items are
\* normalized and pushed.
FetchItems ==
  /\ InLoop
  /\ route = "preview"
  /\ \E length \in PageLengths(itemsPerSource(PreviewLimit, selectedSources)) :
       allRowsLength' = allRowsLength + length
  /\ fetched' = fetched \cup {sourceIndex}
  /\ NextSource
  /\ UNCHANGED <<route, selectedSources, failed, response, pc>>
  /\ UNCHANGED <<serviceVars, exportVars, storeVars>>

\* The export route: one turn of the while loop.  The page is fetched, its
\* items are normalized and pushed, and the loop goes on with the source
\* while it has more and the limit is not reached.
FetchPage ==
  /\ InLoop
  /\ route = "export"
  /\ skip < MaxSkip
  /\ \E length \in PageLengths(BatchSize) :
       /\ allRowsLength' = allRowsLength + length
       /\ IF LimitReached(allRowsLength + length) \/ ~HasMoreAfter(length, BatchSize)
            THEN NextSource
            ELSE /\ hasMore' = HasMoreAfter(length, BatchSize)
                 /\ skip' = skip + BatchSize
                 /\ UNCHANGED sourceIndex
  /\ fetched' = fetched \cup {sourceIndex}
  /\ UNCHANGED <<route, selectedSources, failed, response, pc>>
  /\ UNCHANGED <<serviceVars, exportVars, storeVars>>

\* A fetch that aborts the request.
FetchFails_Aborting ==
  /\ InLoop
  /\ fetched' = fetched \cup {sourceIndex}
  /\ failed' = failed \cup {sourceIndex}
  /\ response' = "error"
  /\ pc' = "responded"
  /\ UNCHANGED <<route, selectedSources, sourceIndex, skip, hasMore, allRowsLength>>
  /\ UNCHANGED <<serviceVars, exportVars, storeVars>>

\* The fetch throws: the catch block of the source logs the error and the
\* for loop goes on with the next source.
FetchFails ==
  /\ InLoop
  /\ route = "export" => skip < MaxSkip
  /\ fetched' = fetched \cup {sourceIndex}
  /\ failed' = failed \cup {sourceIndex}
  /\ NextSource
  /\ UNCHANGED <<route, selectedSources, allRowsLength, response, pc>>
  /\ UNCHANGED <<serviceVars, exportVars, storeVars>>

\* After the loop the route answers with what it has.
Respond ==
  /\ pc = "loop"
  /\ sourceIndex > Len(selectedSources)
  /\ response' = "ok"
  /\ pc' = "responded"
  /\ UNCHANGED <<route, selectedSources, sourceIndex, skip, hasMore, allRowsLength,
                 fetched, failed>>
  /\ UNCHANGED <<serviceVars, exportVars, storeVars>>

NextFetch == FetchColumns \/ FetchItems \/ FetchPage \/ FetchFails \/ Respond

SpecFetch == InitFetch /\ [][NextFetch]_vars

\* Every call of the loop returns or throws, and the handler runs on.
FairSpecFetch == SpecFetch /\ WF_vars(NextFetch)

(***************************************************************************)
(* ExportService, and the part of POST /api/reports/export that prepares   *)
(* its input from the stored sources                                       *)
(***************************************************************************)
\* A source as the table holds it; columns is JSON, an array or not.
StoredSource(id, isArray, columns) ==
  [id |-> id, siteTitle |-> "site", listTitle |-> id,
   columns |-> [isArray |-> isArray, items |-> columns]]

\* `${s.siteTitle} / ${s.listTitle}`
sourceName(source) == <<source.siteTitle, " / ", source.listTitle>>

\* The columns that one source adds: none when its columns are no array.
columnsOfSource(source) ==
  IF source.columns.isArray
    THEN [j \in 1..Len(source.columns.items) |->
            SourceColumn(source.columns.items[j], source.id)]
    ELSE <<>>

RECURSIVE CollectRange(_, _, _)
\* selectedSources.forEach(...) over the sources from lo to hi, in order.
CollectRange(sources, lo, hi) ==
  IF lo > hi THEN <<>>
  ELSE IF lo = hi THEN columnsOfSource(sources[lo])
  ELSE LET mid == (lo + hi) \div 2
       IN  CollectRange(sources, lo, mid) \o CollectRange(sources, mid + 1, hi)

collectColumns(sources) == CollectRange(sources, 1, Len(sources))

\* const exportData = {...}
prepareExportData(filteredRows, unionSchema, sources) ==
  [status |-> "prepared",
   data   |-> filteredRows,
   schema |-> [i \in 1..Len(unionSchema.columns) |->
                 [displayName |-> unionSchema.columns[i].displayName,
                  type        |-> unionSchema.columns[i].type,
                  coverage    |-> unionSchema.columns[i].coverage]],
   sources |-> [j \in 1..Len(sources) |-> sourceName(sources[j])],
   coverageMatrix |-> unionSchema.coverageMatrix.matrix]

\* "; "
ChoiceSeparator == <<59, 32>>

\* "No"
NoString == <<78, 111>>

RECURSIVE JoinBy(_, _, _)
\* Array.prototype.join(separator), from element i on.
JoinBy(items, separator, i) ==
  IF i > Len(items) THEN <<>>
  ELSE (IF items[i].kind \in {"undefined", "null"} THEN <<>> ELSE StringOf(items[i]))
       \o (IF i < Len(items) THEN separator \o JoinBy(items, separator, i + 1) ELSE <<>>)

\* new Date(value), or value when it is a Date; no value of a row is one.
DateOf(value) == [kind |-> "date", of |-> value]

\* Whether formatCellValue throws: String and join of a choice do for a
\* value that has no string conversion.
formatThrows(value, type) ==
  /\ value.kind \notin {"null", "undefined"}
  /\ type = "choice"
  /\ StringThrows(value)

formatCellValue(value, type) ==
  IF value.kind \in {"null", "undefined"} THEN Str(EmptyString)
  ELSE CASE type = "dateTime" -> DateOf(value)
         [] type = "boolean" -> IF Truthy(value) THEN Str(<<89, 101, 115>>) ELSE Str(NoString)
         [] type = "choice" ->
              IF value.kind = "array"
                THEN Str(JoinBy(value.items, ChoiceSeparator, 1))
                ELSE Str(StringOf(value))
         [] type \in {"lookup", "person"} ->
              IF IsObjectType(value)
                THEN Or(Or(PropOf(value, "title"), PropOf(value, "displayName")),
                        Str(EmptyString))
                ELSE Str(StringOf(value))
         [] type = "taxonomy" ->
              IF IsObjectType(value)
                THEN Or(PropOf(value, "label"), Str(EmptyString))
                ELSE Str(StringOf(value))
         [] type = "url" ->
              IF IsObjectType(value)
                THEN Or(PropOf(value, "url"), Str(EmptyString))
                ELSE Str(StringOf(value))
         [] OTHER -> value

\* row[col.displayName]
cellValue(row, col) == Get(row, col.displayName)

\* The rows of the Data sheet under the header.
createDataSheet(data, exportSchema) ==
  [r \in 1..Len(data) |->
     [c \in 1..Len(exportSchema) |->
        formatCellValue(cellValue(data[r], exportSchema[c]), exportSchema[c].type)]]

dataSheetThrows(data, exportSchema) ==
  \E r \in 1..Len(data), c \in 1..Len(exportSchema) :
    formatThrows(cellValue(data[r], exportSchema[c]), exportSchema[c].type)

\* The text the parser writes for a value (the quotes of a string aside):
\* nothing for null and undefined, a boolean, number or string as String
\* gives it, any other value as its JSON text.
csvCell(value) ==
  CASE value.kind \in {"null", "undefined"} -> Str(EmptyString)
    [] value.kind \in {"boolean", "number", "NaN", "string"} -> Str(StringOf(value))
    [] OTHER -> [kind |-> "json", of |-> value]

\* new Parser({ fields }).parse(exportData.data): the header of labels and
\* under it the rows, each the values of the fields of a row of the data.
exportToCSV(data, exportSchema) ==
  [status |-> "written",
   header |-> [c \in 1..Len(exportSchema) |-> exportSchema[c].displayName],
   rows   |-> [r \in 1..Len(data) |->
                 [c \in 1..Len(exportSchema) |->
                    csvCell(cellValue(data[r], exportSchema[c]))]]]

\* The fills of the conditional formatting.
RedFill == "FFFF6B6B"
AmberFill == "FFFFD93D"
GreenFill == "FF6BCF7F"

\* The rules of the conditional formatting of the Coverage % column, in
\* the order of their priority.
CoverageRules ==
  << [operator |-> "lessThan",    formulae |-> <<50>>,     argb |-> RedFill],
     [operator |-> "between",     formulae |-> <<50, 90>>, argb |-> AmberFill],
     [operator |-> "greaterThan", formulae |-> <<89>>,     argb |-> GreenFill] >>

\* A cellIs rule of a spreadsheet: between takes both its ends.
ruleApplies(rule, value) ==
  CASE rule.operator = "lessThan"    -> value < rule.formulae[1]
    [] rule.operator = "greaterThan" -> value > rule.formulae[1]
    [] rule.operator = "between"     ->
         rule.formulae[1] <= value /\ value <= rule.formulae[2]

\* The fills of the rules that apply to a value, the one the cell shows
\* first.
fillsOf(value) ==
  LET applying == SelectSeq(CoverageRules, LAMBDA rule : ruleApplies(rule, value))
  IN  [i \in 1..Len(applying) |-> applying[i].argb]

\* exportData.coverageMatrix[index]?.filter(Boolean).length || 0
sourcesCountOf(matrix, index) ==
  IF index \in DOMAIN matrix
    THEN Cardinality({j \in DOMAIN matrix[index] : matrix[index][j]})
    ELSE 0

\* The rows of the Schema Map sheet under the header, with the fills of the
\* Coverage % cell.
createSchemaMapSheet(exportSchema, matrix) ==
  [i \in 1..Len(exportSchema) |->
     [displayName  |-> exportSchema[i].displayName,
      type         |-> exportSchema[i].type,
      coverage     |-> exportSchema[i].coverage,
      sourcesCount |-> sourcesCountOf(matrix, i),
      partial      |-> exportSchema[i].coverage < FullCoverage,
      fills        |-> fillsOf(exportSchema[i].coverage)]]

\* exportData.coverageMatrix[colIndex]?.[sourceIndex] || false
hasColumn(matrix, colIndex, index) ==
  /\ colIndex \in DOMAIN matrix
  /\ index \in DOMAIN matrix[colIndex]
  /\ matrix[colIndex][index]

\* The rows of the Source Coverage sheet under the header: for each column
\* of the schema a mark for each name of sources, TRUE for the check mark.
createCoverageSheet(exportSchema, sources, matrix) ==
  [i \in 1..Len(exportSchema) |->
     [j \in 1..Len(sources) |-> hasColumn(matrix, i, j)]]

\* The workbook of exportToXLSX, or its failure when a sheet throws.
exportToXLSX(data) ==
  IF dataSheetThrows(data.data, data.schema) THEN [status |-> "failed"]
  ELSE [status    |-> "written",
        data      |-> createDataSheet(data.data, data.schema),
        schemaMap |-> createSchemaMapSheet(data.schema, data.coverageMatrix),
        coverage  |-> createCoverageSheet(data.schema, data.sources,
                                          data.coverageMatrix)]

\* The columns that the stored sources of an export have: Owner and Title.
OwnerColumn == CHOOSE col \in ColumnDefs : col.id = 1
TitleColumn == CHOOSE col \in ColumnDefs : col.id = 2

StoredColumnLists ==
  {<<>>, <<OwnerColumn>>, <<TitleColumn>>, <<OwnerColumn, TitleColumn>>,
   <<TitleColumn, OwnerColumn>>}

\* The sources of the table: with columns, with none, with columns that are
\* no array.
StoredSources ==
  {StoredSource(id, TRUE, columns) : id \in SourceIds, columns \in StoredColumnLists}
  \cup {StoredSource(id, FALSE, <<>>) : id \in SourceIds}

\* sources.filter(s => sourceIds.includes(s.id)): sources of the table in
\* its order, each once.
ExportSelections ==
  {sources \in UNION {[1..n -> StoredSources] : n \in 1..MaxSelected} :
     \A i, j \in 1..Len(sources) : i < j => sources[i].id < sources[j].id}

InitExport ==
  /\ input = <<>>
  /\ schema = NoSchema
  /\ validation = NoValidation
  /\ item = NoRow
  /\ meta = Provenance
  /\ normalized = NoRow
  /\ route = "export"
  /\ selectedSources \in ExportSelections
  /\ sourceIndex = 1
  /\ skip = 0
  /\ hasMore = TRUE
  /\ allRowsLength = 0
  /\ fetched = {}
  /\ failed = {}
  /\ response = "none"
  /\ NoExport
  /\ NoStore
  /\ pc = "collect"

\* The columns of the selected sources are collected.
CollectColumns ==
  /\ pc = "collect"
  /\ input' = collectColumns(selectedSources)
  /\ pc' = "start"
  /\ UNCHANGED <<schema, validation, item, meta, normalized>>
  /\ UNCHANGED <<fetchVars, exportVars, storeVars>>

\* The export data of the schema, for sources whose lists have no items.
PrepareExport ==
  /\ pc = "built"
  /\ route = "export"
  /\ exportData' = prepareExportData(<<>>, schema, selectedSources)
  /\ pc' = "prepared"
  /\ UNCHANGED <<workbook, csv>>
  /\ UNCHANGED <<serviceVars, fetchVars, storeVars>>

\* format === "csv"
ExportToCSV ==
  /\ pc = "prepared"
  /\ csv' = exportToCSV(exportData.data, exportData.schema)
  /\ pc' = "exported"
  /\ UNCHANGED <<exportData, workbook>>
  /\ UNCHANGED <<serviceVars, fetchVars, storeVars>>

ExportToXLSX ==
  /\ pc = "prepared"
  /\ workbook' = exportToXLSX(exportData)
  /\ pc' = "exported"
  /\ UNCHANGED <<exportData, csv>>
  /\ UNCHANGED <<serviceVars, fetchVars, storeVars>>

NextSheet == ExportToCSV \/ ExportToXLSX

NextExport == CollectColumns \/ BuildUnionSchema \/ PrepareExport \/ NextSheet

SpecExport == InitExport /\ [][NextExport]_vars

\* The sources of a column Owner that PercentSources sources have.
PercentSources == 100

\* n sources with the column Title, the first k of them with Owner too.
WideSelection(n, k) ==
  [i \in 1..n |->
     StoredSource(i, TRUE,
                  IF i <= k THEN <<TitleColumn, OwnerColumn>> ELSE <<TitleColumn>>)]

\* Export data of schemas in which the coverage of Owner is each of the
\* values 0 to 100.
CoverageExports ==
  {prepareExportData(<<>>, buildUnionSchema(collectColumns(WideSelection(c[1], c[2]))),
                     WideSelection(c[1], c[2])) :
     c \in {<<PercentSources, k>> : k \in 1..PercentSources} \cup {<<WideSources, 1>>}}

\* The schema of one column Title of a type.
TitleSchema(type) == buildUnionSchema(<<RowColumn(<<Title, Title>>, type)>>)

\* Export data of one normalized row, for each type of the column and each
\* raw value of the field.
RowExports ==
  {prepareExportData(<<normalizeDataRow(r, TitleSchema(t), Provenance, l)>>,
                     TitleSchema(t),
                     <<StoredSource(1, TRUE, <<TitleColumn>>)>>) :
     r \in [{Title} -> RawValues], t \in ColumnTypes, l \in BOOLEAN}

\* The exporter is given export data.
InitSheet ==
  /\ input = <<>>
  /\ schema = NoSchema
  /\ validation = NoValidation
  /\ item = NoRow
  /\ meta = Provenance
  /\ normalized = NoRow
  /\ NoFetch
  /\ exportData \in CoverageExports \cup RowExports
  /\ workbook = NoOutput
  /\ csv = NoOutput
  /\ NoStore
  /\ pc = "prepared"

SpecSheet == InitSheet /\ [][NextSheet]_vars

(***************************************************************************)
(* POST /api/sources/schema: the sources of a request are stored          *)
(***************************************************************************)
MaxRequests == 2

\* The sources that a request can name: lists A and B of one site.
SourceRefs == {[siteId |-> "site", listId |-> l] : l \in {"A", "B"}}

SourceLists == UNION {[1..n -> SourceRefs] : n \in 1..MaxSelected}

\* A row of the table sources; the table has no unique constraint on tenant,
\* site and list.
SourceRecord(tenantId, source) ==
  [tenantId |-> tenantId, siteId |-> source.siteId, listId |-> source.listId]

\* storage.getSourcesByTenant
getSourcesByTenant(table, tenantId) == SelectSeq(table, LAMBDA s : s.tenantId = tenantId)

\* existingSource.find(s => s.siteId === source.siteId && s.listId === source.listId)
existingOf(rows, source) ==
  \E i \in 1..Len(rows) : rows[i].siteId = source.siteId /\ rows[i].listId = source.listId

\* A request of the tenant at the head of its loop over sources.
SchemaRequest(sources) ==
  [sources |-> sources, index |-> 1, at |-> "fetch", pushed |-> <<>>]

\* The table is empty, or holds list A for this tenant or for another one;
\* the requests of the tenant have been parsed.
InitStore ==
  /\ input = <<>>
  /\ schema = NoSchema
  /\ validation = NoValidation
  /\ item = NoRow
  /\ meta = Provenance
  /\ normalized = NoRow
  /\ NoFetch
  /\ NoExport
  /\ store \in {<<>>} \cup
       {<<SourceRecord(t, [siteId |-> "site", listId |-> "A"])>> : t \in {"tenant", "other"}}
  /\ requests \in [1..MaxRequests -> {SchemaRequest(sources) : sources \in SourceLists}]
  /\ pc = "requests"

CurrentSource(r) == requests[r].sources[requests[r].index]

InSourceLoop(r) ==
  /\ pc = "requests"
  /\ requests[r].index <= Len(requests[r].sources)

\* The end of an iteration: the columns are pushed or not, and the loop goes
\* to the next source.
NextIteration(r, pushColumns) ==
  [requests EXCEPT ![r] =
     [@ EXCEPT !.index  = @ + 1,
               !.at     = "fetch",
               !.pushed = IF pushColumns THEN Append(@, CurrentSource(r)) ELSE @]]

\* The Graph calls of an iteration answer with a site and a list.
FetchSource(r) ==
  /\ InSourceLoop(r)
  /\ requests[r].at = "fetch"
  /\ requests' = [requests EXCEPT ![r].at = "read"]
  /\ UNCHANGED store
  /\ UNCHANGED <<serviceVars, fetchVars, exportVars, pc>>

\* A call of the iteration throws, or the site or the list is not found: the
\* source is left out and the loop goes on.
SourceFails(r) ==
  /\ InSourceLoop(r)
  /\ requests[r].at \in {"fetch", "read", "create"}
  /\ requests' = NextIteration(r, FALSE)
  /\ UNCHANGED store
  /\ UNCHANGED <<serviceVars, fetchVars, exportVars, pc>>

\* await storage.getSourcesByTenant, then find: with a record the columns
\* are pushed, without one the request goes to createSource.
GetSourcesByTenant(r) ==
  /\ InSourceLoop(r)
  /\ requests[r].at = "read"
  /\ requests' = IF existingOf(getSourcesByTenant(store, "tenant"), CurrentSource(r))
                   THEN NextIteration(r, TRUE)
                   ELSE [requests EXCEPT ![r].at = "create"]
  /\ UNCHANGED store
  /\ UNCHANGED <<serviceVars, fetchVars, exportVars, pc>>

\* await storage.createSource, then the columns are pushed.
CreateSource(r) ==
  /\ InSourceLoop(r)
  /\ requests[r].at = "create"
  /\ store' = Append(store, SourceRecord("tenant", CurrentSource(r)))
  /\ requests' = NextIteration(r, TRUE)
  /\ UNCHANGED <<serviceVars, fetchVars, exportVars, pc>>

\* After the loop the schema of the pushed columns is built and sent.
RespondSchema(r) ==
  /\ pc = "requests"
  /\ requests[r].at = "fetch"
  /\ requests[r].index > Len(requests[r].sources)
  /\ requests' = [requests EXCEPT ![r].at = "done"]
  /\ UNCHANGED store
  /\ UNCHANGED <<serviceVars, fetchVars, exportVars, pc>>

NextStore ==
  \E r \in 1..MaxRequests :
    \/ FetchSource(r)
    \/ SourceFails(r)
    \/ GetSourcesByTenant(r)
    \/ CreateSource(r)
    \/ RespondSchema(r)

SpecStore == InitStore /\ [][NextStore]_vars

(***************************************************************************)
(* What the claims speak of.                                               *)
(***************************************************************************)
Built == pc \in {"built", "validated", "normalized"}

\* The grouping key of a column: its internal name if it has one, else its
\* display name.
ClaimKey(col) == IF Len(col.name) > 0 THEN col.name ELSE col.displayName

\* The members of the group of a union column, in input order.
Members(column) == SelectSeq(input, LAMBDA m : ClaimKey(m) = ClaimKey(column))

SourceSet(cols) == {cols[i].sourceId : i \in 1..Len(cols)}

Range(s) == {s[i] : i \in 1..Len(s)}

Count(s, P(_)) == Cardinality({i \in 1..Len(s) : P(s[i])})

\* C1: the coverage matrix is aligned with the sorted column list: cell
\* [i][j] is true iff source j of the matrix is among the sources of column
\* i, and the matrix names column i by its display name.
C1_MatrixAligned ==
  Built =>
    /\ Len(schema.coverageMatrix.matrix) = schema.totalColumns
    /\ \A i \in 1..schema.totalColumns :
         /\ schema.coverageMatrix.columns[i] = schema.columns[i].displayName
         /\ \A j \in 1..schema.totalSources :
              schema.coverageMatrix.matrix[i][j]
                = (schema.coverageMatrix.sources[j] \in Range(schema.columns[i].sources))

\* C2: for a non-empty input, totalColumns is the number of distinct
\* grouping keys and totalSources the number of distinct source ids.
C2_Totals ==
  (Built /\ Len(input) > 0) =>
    /\ schema.totalColumns = Cardinality({ClaimKey(input[i]) : i \in 1..Len(input)})
    /\ schema.totalSources = Cardinality(SourceSet(input))
    /\ Len(schema.columns) = schema.totalColumns

C2_Witness ==
  /\ pc = "built"
  /\ schema.totalColumns = 2
  /\ schema.totalSources = 2
  /\ \E i, j \in 1..Len(input) :
       /\ input[i].name = EmptyString
       /\ input[j].name = input[i].displayName

\* C3: the coverage of a union column is 100 d / D rounded to the nearest
\* integer, d the distinct sources of its group and D those of the input.
C3_CoverageRounded ==
  Built =>
    \A c \in Range(schema.columns) :
      LET d == Cardinality(SourceSet(Members(c)))
          D == Cardinality(SourceSet(input))
      IN  c.coverage = (200 * d + D) \div (2 * D)

\* C4: the coverage is an integer in 0..100, and it is 100 iff every
\* distinct source of the input contributes the column.
C4_FullCoverageIffAll ==
  Built =>
    \A c \in Range(schema.columns) :
      /\ c.coverage \in 0..100
      /\ (c.coverage = 100) <=> (SourceSet(Members(c)) = SourceSet(input))

\* C5: the matrix has totalColumns rows of totalSources cells each, and
\* every row has a true cell.
C5_MatrixShape ==
  Built =>
    /\ Len(schema.coverageMatrix.matrix) = schema.totalColumns
    /\ \A i \in 1..Len(schema.coverageMatrix.matrix) :
         /\ Len(schema.coverageMatrix.matrix[i]) = schema.totalSources
         /\ \E j \in 1..Len(schema.coverageMatrix.matrix[i]) :
              schema.coverageMatrix.matrix[i][j]

C5_Witness ==
  /\ pc = "built"
  /\ schema.totalColumns = 3
  /\ schema.totalSources = 3
  /\ \E i \in 1..3 : \E j \in 1..3 : ~schema.coverageMatrix.matrix[i][j]

\* C6 as stated, with the display names in the order of the relational
\* operators (code units): adjacent columns are in descending coverage and,
\* at equal coverage, in ascending display name.
C6_SortedByCodeUnits ==
  Built =>
    \A i \in 1..(Len(schema.columns) - 1) :
      LET a == schema.columns[i]
          b == schema.columns[i + 1]
      IN  \/ a.coverage > b.coverage
          \/ /\ a.coverage = b.coverage
             /\ codeUnitCompare(a.displayName, b.displayName) <= 0

\* C6, amended: adjacent columns are in descending coverage and, at equal
\* coverage, in ascending display name in the order of localeCompare (the
\* letters first, whatever their case: "amount" before "Owner").
C6_SortedByCollation ==
  Built =>
    \A i \in 1..(Len(schema.columns) - 1) :
      LET a == schema.columns[i]
          b == schema.columns[i + 1]
      IN  \/ a.coverage > b.coverage
          \/ /\ a.coverage = b.coverage
             /\ localeCompare(a.displayName, b.displayName) <= 0

C6_Witness ==
  /\ pc = "built"
  /\ Len(schema.columns) = 3
  /\ schema.columns[1].coverage = schema.columns[2].coverage
  /\ schema.columns[2].coverage = schema.columns[3].coverage
  /\ schema.columns[1].displayName = amount
  /\ schema.columns[2].displayName = Owner
  /\ schema.columns[3].displayName = Title
  /\ ClaimKey(input[1]) = ClaimKey(schema.columns[3])

\* C7: the union column of a group has the type, id, internal name and
\* display name of the first member of the group in input order, and every
\* group has exactly one union column.
C7_FirstMember ==
  Built =>
    /\ \A c \in Range(schema.columns) :
         LET first == Members(c)[1]
         IN  /\ c.type = first.type
             /\ c.id = first.id
             /\ c.name = first.name
             /\ c.displayName = first.displayName
    /\ \A i \in 1..Len(input) :
         Count(schema.columns, LAMBDA c : ClaimKey(c) = ClaimKey(input[i])) = 1

C7_Witness ==
  /\ pc = "built"
  /\ \E c \in Range(schema.columns) :
       LET m == Members(c)
       IN  /\ Len(m) = 3
           /\ m[1].type # m[3].type
           /\ m[1].id # m[2].id
           /\ m[1].displayName # m[3].displayName
           /\ m[2] = m[3]

\* C8: typeConflicts lists, in input order, one entry (sourceId, type) for
\* every member of the group whose type is not the primary type, and nothing
\* else; "amount" as currency in source 1, then as text in source 2, gives
\* the one entry (2, text).
C8_TypeConflicts ==
  Built =>
    /\ \A c \in Range(schema.columns) :
         LET differing == SelectSeq(Members(c), LAMBDA m : m.type # c.type)
         IN  /\ Len(c.typeConflicts) = Len(differing)
             /\ \A k \in 1..Len(differing) :
                  /\ c.typeConflicts[k].sourceId = differing[k].sourceId
                  /\ c.typeConflicts[k].type = differing[k].type
    /\ ( /\ Len(input) = 2
         /\ input[1].name = amount /\ input[1].type = "currency" /\ input[1].sourceId = 1
         /\ input[2].name = amount /\ input[2].type = "text" /\ input[2].sourceId = 2 )
       => schema.columns[1].typeConflicts = <<[sourceId |-> 2, type |-> "text"]>>

C8_Witness ==
  /\ pc = "built"
  /\ \E c \in Range(schema.columns) :
       /\ Len(c.typeConflicts) = 2
       /\ c.typeConflicts[1].sourceId = c.typeConflicts[2].sourceId
       /\ Len(Members(c)) = 3

\* C9: a union column is required iff some member of its group is required,
\* and hidden iff every member of its group is hidden.
C9_RequiredAnyHiddenAll ==
  Built =>
    \A c \in Range(schema.columns) :
      /\ c.required <=> (\E m \in Range(Members(c)) : m.required)
      /\ c.hidden <=> (\A m \in Range(Members(c)) : m.hidden)

C9_Witness ==
  /\ pc = "built"
  /\ \E c \in Range(schema.columns) :
       /\ c.required
       /\ ~c.hidden
       /\ \E m \in Range(Members(c)) : ~m.required
       /\ \E m \in Range(Members(c)) : m.hidden

\* C10: validateColumnTypes reports one type-conflict warning for every
\* column with type conflicts, one low-coverage warning for every column of
\* coverage below 50, one error for every required column of coverage below
\* 100, and nothing else; Owner required in source 1 only, of two sources,
\* has coverage 50 and gets the only error.
C10_Validation ==
  pc = "validated" =>
    /\ \A w \in Range(validation.warnings) : w.kind \in {"typeConflicts", "lowCoverage"}
    /\ \A e \in Range(validation.errors) : e.kind = "requiredMissing"
    /\ \A m \in Range(validation.warnings) \cup Range(validation.errors) :
         \E c \in Range(schema.columns) : c.displayName = m.column
    /\ \A c \in Range(schema.columns) :
         /\ Count(validation.warnings,
                  LAMBDA w : w.kind = "typeConflicts" /\ w.column = c.displayName)
              = Count(schema.columns,
                      LAMBDA x : x.displayName = c.displayName /\ x.typeConflicts # <<>>)
         /\ Count(validation.warnings,
                  LAMBDA w : w.kind = "lowCoverage" /\ w.column = c.displayName)
              = Count(schema.columns,
                      LAMBDA x : x.displayName = c.displayName /\ x.coverage < 50)
         /\ Count(validation.errors, LAMBDA e : e.column = c.displayName)
              = Count(schema.columns,
                      LAMBDA x : x.displayName = c.displayName /\ x.required
                                 /\ x.coverage < 100)
    /\ ( /\ Len(input) = 2
         /\ input[1].name = Owner /\ input[1].required /\ input[1].sourceId = 1
         /\ input[2].name = Title /\ ~input[2].required /\ input[2].sourceId = 2 )
       => /\ \E c \in Range(schema.columns) : c.name = Owner /\ c.coverage = 50
          /\ Len(validation.errors) = 1
          /\ validation.errors[1].column = Owner

C10_Witness ==
  /\ pc = "validated"
  /\ \E w \in Range(validation.warnings) : w.kind = "typeConflicts"
  /\ \E w \in Range(validation.warnings) : w.kind = "lowCoverage"
  /\ Len(validation.errors) = 1
  /\ \E c \in Range(schema.columns) : c.coverage >= 50 /\ ~c.required

(***************************************************************************)
(* Claims about normalizeDataRow                                           *)
(***************************************************************************)
Normalized == pc = "normalized"

\* The keys of the five source fields and of the item URL.
ProvenanceKeys ==
  {SourceIdKey, SiteUrlKey, SiteTitleKey, ListTitleKey, ListIdKey, ItemUrlKey}

\* The value a record stores for a column: the one under the internal name
\* when the record has that key, otherwise the one under the display name
\* when the record has that key, otherwise none.
StoredValue(column) ==
  IF column.name \in DOMAIN item THEN item[column.name]
  ELSE IF column.displayName \in DOMAIN item THEN item[column.displayName]
  ELSE Undefined

\* The union columns that have an entry of their own in the row: the display
\* name is that of no other column and of no source field.
OwnEntryColumns ==
  {c \in Range(schema.columns) :
     /\ c.displayName \notin ProvenanceKeys
     /\ Count(schema.columns, LAMBDA x : x.displayName = c.displayName) = 1}

\* The value the row has for a column.
Emitted(column) == normalized[column.displayName]

\* C11: the normalized row has exactly totalColumns entries besides the five
\* source fields and the item URL, one for each union column, also for the
\* columns that the raw record does not have.
C11_OneEntryPerColumn ==
  Normalized =>
    Cardinality(DOMAIN normalized \ ProvenanceKeys) = schema.totalColumns

\* C12: for every union column the row has the coerced value of what the raw
\* record stores under the internal name when it has that key, otherwise of
\* what it stores under the display name when it has that key; the value is
\* null only when the record has neither key or stores null.
C12_InternalNameThenDisplayName ==
  Normalized =>
    \A c \in OwnEntryColumns :
      /\ \E lenient \in BOOLEAN :
           Emitted(c) = coerceValue(StoredValue(c), c.type, lenient)
      /\ c.type \in {"text", "boolean", "choice", "lookup", "person",
                     "taxonomy", "url", "calculated", "unknown"}
           => (Emitted(c) = Null
                 <=> StoredValue(c).kind \in {"null", "undefined"})

\* A number or a string that is a decimal numeral.
IsNumeric(v) ==
  \/ v.kind = "number"
  \/ /\ v.kind = "string"
     /\ \E i \in 1..Len(v.s) : IsDigit(v.s[i])
     /\ StringToNumber(v.s).kind = "number"

\* C13: for a union column of type number or currency the row has the
\* numeric value of a raw value that is a number or a numeric string ("42.5"
\* gives 42.5) and null for a raw value that is not numeric ("abc" gives
\* null).
C13_NumericOrNull ==
  Normalized =>
    \A c \in OwnEntryColumns :
      c.type \in {"number", "currency"} =>
        LET raw == StoredValue(c)
        IN  /\ raw.kind = "number" => Emitted(c) = raw
            /\ raw.kind = "string" /\ IsNumeric(raw)
                 => Emitted(c) = StringToNumber(raw.s)
            /\ raw = Str(<<52, 50, 46, 53>>) => Emitted(c) = Num(425)
            /\ ~IsNumeric(raw) => Emitted(c) = Null

\* C14: for a union column of type boolean the row has a raw boolean
\* unchanged, and for a raw string true when the string is "true", "yes" or
\* "1" in any case, and false for any other string, the empty one included.
C14_Boolean ==
  Normalized =>
    \A c \in OwnEntryColumns :
      c.type = "boolean" =>
        LET raw == StoredValue(c)
        IN  /\ raw.kind = "boolean" => Emitted(c) = raw
            /\ raw.kind = "string" =>
                 Emitted(c) =
                   Bool(toLowerCase(raw.s) \in {TrueString, YesString, OneString})

\* An ISO-8601 date and time: YYYY-MM-DDTHH:MM:SS.mmmZ.
IsIsoDateTime(v) ==
  /\ v.kind = "string"
  /\ Len(v.s) = 24
  /\ IsIsoDate(SubSeq(v.s, 1, 10))
  /\ v.s[11] = 84 /\ v.s[14] = 58 /\ v.s[17] = 58 /\ v.s[20] = 46 /\ v.s[24] = 90
  /\ \A i \in {12, 13, 15, 16, 18, 19, 21, 22, 23} : IsDigit(v.s[i])

\* A raw value that is a date: a time value in milliseconds or a string in
\* the date format.
IsParsable(v) ==
  \/ v.kind = "number"
  \/ v.kind = "string" /\ IsIsoDate(v.s)

\* C15: for a union column of type dateTime the row has an ISO-8601 string
\* for a raw value that is a date and null for one that is not; a value that
\* is no date is never in the row as it came.
C15_IsoDateOrNull ==
  Normalized =>
    \A c \in OwnEntryColumns :
      c.type = "dateTime" /\ StoredValue(c).kind \notin {"null", "undefined"} =>
        /\ Emitted(c) = Null \/ IsIsoDateTime(Emitted(c))
        /\ IsParsable(StoredValue(c)) => IsIsoDateTime(Emitted(c))
        /\ Emitted(c) # StoredValue(c)

\* A raw value that is neither an object nor an array.
IsScalar(v) == v.kind \in {"number", "string", "boolean"}

\* C16: the shape of a value of the row that is not null follows from the
\* type of the union column alone: a choice is a list of strings, and a
\* scalar raw value gives a lookup {id: null, title}, a person {id: null,
\* displayName, email: null}, a taxonomy {label, termGuid: null} and a url
\* {url, description: null} with the value as a string.
C16_ShapeByDeclaredType ==
  Normalized =>
    \A c \in OwnEntryColumns :
      LET raw  == StoredValue(c)
          text == Str(StringOf(raw))
      IN  Emitted(c) # Null =>
            /\ c.type = "choice" =>
                 /\ Emitted(c).kind = "array"
                 /\ \A i \in 1..Len(Emitted(c).items) :
                      Emitted(c).items[i].kind = "string"
                 /\ IsScalar(raw) => Emitted(c) = Arr(<<text>>)
            /\ c.type = "lookup" /\ IsScalar(raw) =>
                 Emitted(c) = Obj([id |-> Null, title |-> text])
            /\ c.type = "person" /\ IsScalar(raw) =>
                 Emitted(c) = Obj([id |-> Null, displayName |-> text, email |-> Null])
            /\ c.type = "taxonomy" /\ IsScalar(raw) =>
                 Emitted(c) = Obj([label |-> text, termGuid |-> Null])
            /\ c.type = "url" /\ IsScalar(raw) =>
                 Emitted(c) = Obj([url |-> text, description |-> Null])

\* C17: when the coercion of the value of a field throws, the row has null
\* for the field, never the raw value, and has all its other fields.
C17_FailedCoercionIsNull ==
  Normalized =>
    /\ \A c \in Range(schema.columns) : c.displayName \in DOMAIN normalized
    /\ \A c \in OwnEntryColumns :
         coercionThrows(rawValue(item, c), c.type) => Emitted(c) = Null

\* C18: the row has the source identifier, site URL, site title, list title
\* and list identifier that the caller gave, and as item URL the webUrl of
\* the raw record or null, whatever the union columns are called and the
\* raw record holds.
C18_Provenance ==
  Normalized =>
    /\ normalized[SourceIdKey] = meta.sourceId
    /\ normalized[SiteUrlKey] = meta.siteUrl
    /\ normalized[SiteTitleKey] = meta.siteTitle
    /\ normalized[ListTitleKey] = meta.listTitle
    /\ normalized[ListIdKey] = meta.listId
    /\ normalized[ItemUrlKey] =
         (IF WebUrlKey \in DOMAIN item THEN item[WebUrlKey] ELSE Null)

(***************************************************************************)
(* Claims about the empty input                                            *)
(***************************************************************************)
\* C20: for an empty input buildUnionSchema returns the empty schema (no
\* columns, totalColumns 0, totalSources 0, an empty coverage matrix), and
\* validateColumnTypes of it returns no warnings and no errors.
C20_EmptyInput ==
  input = <<>> =>
    /\ Built =>
         /\ schema.columns = <<>>
         /\ schema.totalColumns = 0
         /\ schema.totalSources = 0
         /\ schema.coverageMatrix =
              [columns |-> <<>>, sources |-> <<>>, matrix |-> <<>>]
    /\ pc = "validated" =>
         /\ validation.warnings = <<>>
         /\ validation.errors = <<>>

C20_Witness ==
  /\ input = <<>>
  /\ pc = "validated"
  /\ schema.totalSources = 0
  /\ validation.errors = <<>>

(***************************************************************************)
(* Claims about the calls on a schema                                      *)
(***************************************************************************)
\* C21: validateColumnTypes and normalizeDataRow leave the schema as it is:
\* after any sequence of validations and normalizations the columns, the
\* counts and the coverage matrix are what buildUnionSchema returned, and a
\* validation with errors is followed by a normalization all the same.
C21_SchemaUnchanged ==
  /\ Built => schema = buildUnionSchema(input)
  /\ pc = "validated" => ENABLED NormalizeDataRow

C21_Witness ==
  /\ pc = "normalized"
  /\ validation.errors # <<>>
  /\ schema.totalColumns > 0

(***************************************************************************)
(* Claims about the routes' loops over their sources                       *)
(***************************************************************************)
Responded == pc = "responded"

C23_ExportLoopTerminates ==
  [](route = "export" => <>(pc = "responded"))

C23_Witness ==
  /\ Responded
  /\ route = "export"
  /\ failed = {}
  /\ allRowsLength > ExportLimit

\* C28: in the export route, once more than 100,000 rows are there no page
\* is asked of any source, so the rows never pass the limit by more than
\* one page of 1000.
C28_AtMostOnePageOverLimit ==
  route = "export" => allRowsLength <= ExportLimit + BatchSize

(***************************************************************************)
(* Claims about the exporter                                               *)
(***************************************************************************)
Exported == pc = "exported"

\* C24: the fills of the Coverage % cell are bands of the values 0 to 100:
\* each value has one fill, red when it is below 50, amber from 50 to 89,
\* green from 90 on, and red is the fill of the values for which
\* validateColumnTypes warns of low coverage.
C24_CoverageBands ==
  (Exported /\ workbook.status = "written") =>
    \A i \in DOMAIN workbook.schemaMap :
      LET coverage == workbook.schemaMap[i].coverage
          fills    == workbook.schemaMap[i].fills
      IN  /\ coverage \in 0..100
          /\ Len(fills) = 1
          /\ fills[1] = RedFill   <=> coverage < 50
          /\ fills[1] = AmberFill <=> (coverage >= 50 /\ coverage <= 89)
          /\ fills[1] = GreenFill <=> coverage >= 90
          /\ fills[1] = RedFill   <=> coverage < LowCoverageThreshold

\* C25: a data cell of the CSV export is the flattened value of the type of
\* its column, as in the Data sheet: Yes or No for a boolean, the elements
\* joined with "; " for a choice, the title or display name for a lookup
\* and a person, nothing for null.
C25_CsvCellsFlattened ==
  (Exported /\ csv.status = "written") =>
    \A r \in DOMAIN csv.rows : \A c \in DOMAIN csv.rows[r] :
      LET col   == exportData.schema[c]
          value == cellValue(exportData.data[r], col)
      IN  ( /\ ~formatThrows(value, col.type)
            /\ \/ col.type \in {"boolean", "choice", "lookup", "person"}
               \/ value = Null )
          => csv.rows[r][c] = formatCellValue(value, col.type)

\* Whether a stored source has a column of the group of a union column.
SourceContains(source, column) ==
  /\ source.columns.isArray
  /\ \E j \in 1..Len(source.columns.items) :
       ClaimKey(source.columns.items[j]) = ClaimKey(column)

\* C27: the names of the sources that the exporter gets are in the order of
\* the sources of the coverage matrix, whatever the selected sources hold
\* as columns: the Source Coverage sheet has a check mark in row i under
\* source j exactly when the j-th named source has the i-th column.
C27_CoverageSheetAligned ==
  (Exported /\ workbook.status = "written") =>
    /\ Len(exportData.sources) = Len(selectedSources)
    /\ \A i \in 1..Len(exportData.schema) : \A j \in 1..Len(selectedSources) :
         /\ exportData.sources[j] = sourceName(selectedSources[j])
         /\ exportData.schema[i].displayName = schema.columns[i].displayName
         /\ workbook.coverage[i][j] = SourceContains(selectedSources[j], schema.columns[i])

(***************************************************************************)
(* Claims about the items that the routes normalize                        *)
(***************************************************************************)
\* The value that the fields of the item have for a column: the one under
\* the internal name, else the one under the display name.
FieldValue(column) ==
  LET fields == item[FieldsKey].props
  IN  IF column.name \in DOMAIN fields THEN fields[column.name]
      ELSE IF column.displayName \in DOMAIN fields THEN fields[column.displayName]
      ELSE Undefined

\* C26: in the preview and export routes the value of a union column in the
\* normalized row of a list item is the coerced field value of the item for
\* the column (under the internal name, else the display name); a field
\* value that is not null never gives null in a text column.
C26_FieldValuesNormalized ==
  (Normalized /\ FieldsKey \in DOMAIN item) =>
    \A c \in OwnEntryColumns :
      /\ \E lenient \in BOOLEAN :
           Emitted(c) = coerceValue(FieldValue(c), c.type, lenient)
      /\ (c.type = "text" /\ FieldValue(c).kind \notin {"null", "undefined"})
           => Emitted(c) # Null

(***************************************************************************)
(* Claims about the order of the input of buildUnionSchema                 *)
(***************************************************************************)
\* What a schema says without regard to order: the totals and, for each
\* grouping key, the contributing sources, the coverage and the flags.
Summary(unionSchema) ==
  [totalColumns |-> unionSchema.totalColumns,
   totalSources |-> unionSchema.totalSources,
   groups       |-> {[key      |-> ClaimKey(c),
                      sources  |-> Range(c.sources),
                      coverage |-> c.coverage,
                      required |-> c.required,
                      hidden   |-> c.hidden] : c \in Range(unionSchema.columns)}]

\* The input in the order p.
Permuted(p) == [i \in 1..Len(input) |-> input[p[i]]]

\* C29: for inputs that are permutations of each other, the schemas agree on
\* totalColumns, totalSources, the set of grouping keys and, for each key,
\* the set of contributing sources, the coverage, the required flag and the
\* hidden flag.
C29_OrderIndependent ==
  Built =>
    \A p \in Permutations(1..Len(input)) :
      Summary(buildUnionSchema(Permuted(p))) = Summary(schema)

C29_Witness ==
  /\ pc = "built"
  /\ Len(input) = MaxLen
  /\ \E p \in Permutations(1..Len(input)) :
       /\ buildUnionSchema(Permuted(p)).columns # schema.columns
       /\ \E c \in Range(schema.columns) :
            /\ Len(Members(c)) > 1
            /\ c.hidden
            /\ c.required
            /\ \E i \in 1..Len(input) : ~input[i].required

(***************************************************************************)
(* Claims about the stored sources                                         *)
(***************************************************************************)
\* C30: under any interleaving of schema requests of one tenant the table
\* never holds two records with the same tenant, site and list.
C30_NoDuplicateSource ==
  \A i, j \in 1..Len(store) :
    (/\ store[i].tenantId = store[j].tenantId
     /\ store[i].siteId = store[j].siteId
     /\ store[i].listId = store[j].listId) => i = j

====
